---- MODULE Spec2Model ----
(***************************************************************************)
(* Model of src/key_generating.rs: KeyGeneratingTree<Counter, u64, V>      *)
(* (CounterTree), its batches and its transaction contexts, over one named *)
(* partition of the underlying store.                                      *)
(*                                                                         *)
(* Every call of Counter::next_key is one atomic read-modify-write of the  *)
(* AtomicU64, so the interleavings of concurrent callers are exactly the   *)
(* orders in which the minting actions below can be taken.  A batch under  *)
(* construction and a running transaction closure span several steps, and  *)
(* every other operation of the handle may be taken between them.          *)
(***************************************************************************)
EXTENDS Integers, Sequences, FiniteSets

(* ------------------------------ bounds --------------------------------- *)

\* The greatest value of the key type: u64::MAX, scaled down.
MaxKey == 3

\* Keys minted in one run (far fewer than the key type holds).
MaxMints == 3

\* Operations on keys the caller names (explicit-key inserts, removals and
\* queued removals) in one run.
MaxExplicit == 1

\* Handles opened, one after the other, over the partition.
MaxOpens == 2

\* Invocations of the closure in one transaction call.
MaxAttempts == 2

\* Handles alive beside the first one (clones and handles of further open
\* calls).
MaxFurther == 1

(* ------------------------------ values --------------------------------- *)

Modulus == MaxKey + 1

Keys == 0..MaxKey

\* The absent value (Option::None).
None == <<"none", 0>>

\* The values callers pass.  The code never inspects a value, so two
\* different ones are enough to tell one write from another.
PlainValues == {<<"plain", 1>>, <<"plain", 2>>}

\* One value, for the writes of a scenario in which only the keys matter.
OneValue == {<<"plain", 1>>}

\* The value written by explicit-key inserts.
ExplicitValues == {<<"plain", 1>>}

\* A value that embeds the key it was constructed for.
Embed(k) == <<"emb", k>>

Values == PlainValues \cup {Embed(k) : k \in Keys}

\* The constructor functions handed to insert_fn: one embeds the key it
\* receives, one ignores it.
Constructors == {"embed", "const"}

Construct(f, k) == IF f = "embed" THEN Embed(k) ELSE <<"plain", 1>>

\* The handle is absent before open and after drop; the overflow check of a
\* debug build ends open in a panic.
Panic == -1

(* -------------------------- underlying store --------------------------- *)

EmptyStore == [k \in Keys |-> None]

KeysOf(s) == {k \in Keys : s[k] # None}

Max(S) == CHOOSE m \in S : \A x \in S : x <= m

\* Tree::get
TreeGet(s, k) == s[k]

\* Tree::insert: the new contents (the previous value is TreeGet).
TreeInsert(s, k, v) == [s EXCEPT ![k] = v]

\* Tree::remove
TreeRemove(s, k) == [s EXCEPT ![k] = None]

\* Tree::last: the greatest key, None when the partition is empty.
TreeLast(s) == IF KeysOf(s) = {} THEN None ELSE <<"some", Max(KeysOf(s))>>

\* The errors the store can raise.
StoreErrors == {"io", "corruption"}

\* The two shapes of a Result.
Ok(x) == <<"ok", x>>

Err(e) == <<"err", e>>

\* The outcomes of Tree::last on a partition: the scan succeeds or the store
\* raises an error.
ScanOutcomes(s) == {Ok(TreeLast(s))} \cup {Err(e) : e \in StoreErrors}

\* One queued operation of a Batch, <<"ins", key, value>> or <<"del", key, None>>,
\* applied to the partition.
ApplyOp(s, op) == IF op[1] = "ins" THEN TreeInsert(s, op[2], op[3]) ELSE TreeRemove(s, op[2])

RECURSIVE ApplyOps(_, _)
\* Tree::apply_batch: the queued operations in order, as one commit.
ApplyOps(s, ops) == IF ops = <<>> THEN s ELSE ApplyOps(ApplyOp(s, Head(ops)), Tail(ops))

\* A key the running transaction attempt has not written.
Untouched == <<"untouched", 0>>

\* What a transaction attempt has staged: for every key the value written,
\* None for a removal, or Untouched.
NoWrites == [k \in Keys |-> Untouched]

StageOp(w, op) == [w EXCEPT ![op[2]] = op[3]]

RECURSIVE StageOps(_, _)
\* TransactionalTree::apply_batch: the queued operations in order, staged.
StageOps(w, ops) == IF ops = <<>> THEN w ELSE StageOps(StageOp(w, Head(ops)), Tail(ops))

\* The keys a transaction attempt has written.
StagedKeys(w) == {k \in Keys : w[k] # Untouched}

\* The commit of a transaction attempt: every staged write, at once.
Commit(s, w) == [k \in Keys |-> IF w[k] = Untouched THEN s[k] ELSE w[k]]

(* ------------------------------ Counter -------------------------------- *)

\* u64 addition of the atomic: wraps around on overflow.
WrappingAdd(a, b) == (a + b) % Modulus

\* `key + 1` in Counter::initialize: a plain u64 addition, which panics on
\* overflow where overflow checks are compiled in and wraps where not.
CheckedOrWrappingSucc(key) == IF key + 1 > MaxKey THEN {Panic, WrappingAdd(key, 1)} ELSE {key + 1}

\* The unwinding of a panic, where a value was expected.
Unwinding == <<"panic", 0>>

\* A slip: a failed scan is taken for an empty partition (ok().flatten() for
\* expect).
ExpectOrNone(res) == IF res[1] = "err" THEN None ELSE res[2]

\* Result::expect on what Tree::last returned: the value of an Ok, a panic on
\* an Err.
Expect(res) == IF res[1] = "err" THEN Unwinding ELSE res[2]

\* Counter::initialize, given what Tree::last returns: the values the new
\* counter can hold (Panic: none, initialize does not return).
CounterInitializeFrom(res) ==
  LET found == Expect(res) IN
    IF found = Unwinding THEN {Panic}
    ELSE IF found # None THEN CheckedOrWrappingSucc(found[2])
    ELSE {0}

\* Counter::initialize over a partition whose scan succeeds.
CounterInitialize(s) == CounterInitializeFrom(Ok(TreeLast(s)))

\* Result::map with |opt_v| (key, opt_v): an Ok gets the key beside its
\* value, an Err passes through.
ResultMap(res, key) == IF res[1] = "ok" THEN Ok(<<key, res[2]>>) ELSE res

\* A slip: the value after the addition is returned (add_fetch for fetch_add).
FetchAddResultAfter(c) == WrappingAdd(c, 1)

\* Counter::next_key (fetch_add): the value returned.
FetchAddResult(c) == c

\* Counter::next_key (fetch_add): the value left in the atomic.
FetchAddStored(c) == WrappingAdd(c, 1)

(* ------------------------------- state --------------------------------- *)

VARIABLES
  store,      \* the partition: key -> value or None
  handle,     \* "closed", "open" or "panicked"
  counter,    \* the AtomicU64 of the handle's Counter
  opens,      \* handles opened so far
  atOpen,     \* the partition's contents when the handle was opened
  seed,       \* the counter's value when the handle was opened
  minted,     \* keys minted through the handle, in order
  direct,     \* values passed to the direct inserts, while directOnly
  oldMinted,  \* keys minted through earlier handles, in order
  explicit,   \* operations on keys the caller named, so far
  directOnly, \* every operation through the handle so far was a direct insert
  building,   \* a batch is under construction
  batch,      \* the queued operations of that batch (or of the batch last applied), in order
  txState,    \* "idle" or "running" (inside the closure)
  txWrites,   \* operations staged by the running attempt
  txKeys,     \* keys minted by the running attempt
  txFailed,   \* keys minted by the attempts of this call that ended in a conflict
  txAttempts, \* invocations of the closure in this call
  txStart,    \* when this call began: the counter's value, and the number of keys
              \* minted over the partition until then
  txCounts,   \* the number of inserts made by each attempt that ended in a conflict, in order
  txReplays,  \* for every replay of a batch in this call: the attempt, the batch
              \* and the keys the replay wrote
  failed,     \* the failed writes through the handle: the key minted, the error the
              \* store raised and the error the caller got
  atomics,    \* the AtomicU64 cells of the counters made beside the first handle's
  arcs,       \* the further handles: how each was made ("clone" or "open"), the handle
              \* it was cloned from (0: the first handle), the cell its Arc points to
              \* (0: the first handle's counter) and that cell's value when it was made
  mintedVia,  \* keys minted through the further handles, in order: <<handle, key>>
  last        \* the last operation: its name, the key it minted or was given (the
              \* number of operations applied, for apply_batch), the value it
              \* wrote and the previous value it returned (the error it returned,
              \* for a write or a scan that failed)

genVars == <<counter, minted>>
ghostVars == <<directOnly, direct>>
shareVars == <<atomics, arcs, mintedVia>>
handleVars == <<handle, opens, atOpen, seed, oldMinted, failed, shareVars>>
batchVars == <<building, batch>>
txGhost == <<txStart, txCounts, txReplays>>
txVars == <<txState, txWrites, txKeys, txFailed, txAttempts, txGhost>>

vars == <<store, genVars, handleVars, explicit, ghostVars, batchVars, txVars, last>>

Op(op, key, val, old) == [op |-> op, key |-> key, val |-> val, old |-> old]

\* The partitions the first handle is opened over: the keys 0..k-1 (left by
\* an earlier run of generated inserts; none for k = 0, every key of the type
\* for k = MaxKey + 1), and one with a gap below an explicitly written key.
InitKeySets == {0..(k - 1) : k \in 0..(MaxKey + 1)} \cup {{0, MaxKey - 1}}

InitStores == {[k \in Keys |-> IF k \in S THEN <<"plain", 1>> ELSE None] : S \in InitKeySets}

Init ==
  /\ store \in InitStores
  /\ handle = "closed"
  /\ counter = 0
  /\ opens = 0
  /\ atOpen = EmptyStore
  /\ seed = 0
  /\ minted = <<>>
  /\ oldMinted = <<>>
  /\ explicit = 0
  /\ directOnly = FALSE
  /\ direct = <<>>
  /\ building = FALSE
  /\ batch = <<>>
  /\ txState = "idle"
  /\ txWrites = NoWrites
  /\ txKeys = <<>>
  /\ txFailed = {}
  /\ txAttempts = 0
  /\ txStart = <<0, 0>>
  /\ txCounts = <<>>
  /\ txReplays = {}
  /\ failed = {}
  /\ atomics = <<>>
  /\ arcs = <<>>
  /\ mintedVia = <<>>
  /\ last = Op("none", 0, None, None)

MintedKeys == {minted[i] : i \in 1..Len(minted)}

OldMintedKeys == {oldMinted[i] : i \in 1..Len(oldMinted)}

\* The keys a caller has reason to name: those in the partition and those
\* minted for it.
KnownKeys == KeysOf(store) \cup MintedKeys

\* A key may still be minted in this run.
CanMint == Len(oldMinted) + Len(minted) + Len(mintedVia) < MaxMints

(* ------------------------ KeyGeneratingTree ---------------------------- *)

\* KeyGeneratingTree::open, given what the scan of Counter::initialize
\* returns: Tree::open, then KG::initialize.
OpenOn(scan) ==
  /\ handle = "closed"
  /\ opens < MaxOpens
  /\ \E c \in CounterInitializeFrom(scan) :
       /\ handle' = IF c = Panic THEN "panicked" ELSE "open"
       /\ counter' = IF c = Panic THEN 0 ELSE c
       /\ seed' = IF c = Panic THEN 0 ELSE c
       /\ last' = Op("open", IF c = Panic THEN 0 ELSE c, None,
                     IF scan[1] = "err" THEN scan ELSE None)
  /\ opens' = opens + 1
  /\ atOpen' = store
  /\ minted' = <<>>
  /\ directOnly' = TRUE
  /\ direct' = <<>>
  /\ failed' = {}
  /\ UNCHANGED <<store, oldMinted, explicit, shareVars, batchVars, txVars>>

\* KeyGeneratingTree::open over a partition whose scan succeeds.
Open == OpenOn(Ok(TreeLast(store)))

\* KeyGeneratingTree::open while the store fails the scan for the greatest key.
OpenScanFails == \E e \in StoreErrors : OpenOn(Err(e))

\* The handle goes out of scope (the process ends).  A batch and a
\* transaction context borrow the generator, so neither outlives the handle.
Drop ==
  /\ handle = "open"
  /\ ~building
  /\ txState = "idle"
  /\ handle' = "closed"
  /\ oldMinted' = oldMinted \o minted
  /\ minted' = <<>>
  /\ last' = Op("drop", 0, None, None)
  /\ UNCHANGED <<store, counter, opens, atOpen, seed, failed, shareVars, explicit, ghostVars, batchVars, txVars>>

\* A slip: the generated insert refuses a key that is taken (an insert-if-absent
\* write for Tree::insert) and reports the collision.
InsertRefusingTaken(value) ==
  /\ handle = "open"
  /\ CanMint
  /\ LET key == FetchAddResult(counter)
         taken == TreeGet(store, key) # None
     IN
       /\ counter' = FetchAddStored(counter)
       /\ minted' = Append(minted, key)
       /\ store' = IF taken THEN store ELSE TreeInsert(store, key, value)
       /\ last' = Op("insert", key, value, IF taken THEN Err("taken") ELSE None)
  /\ direct' = IF directOnly THEN Append(direct, value) ELSE direct
  /\ UNCHANGED <<handleVars, explicit, directOnly, batchVars, txVars>>

\* KeyGeneratingTree::insert
Insert(value) ==
  /\ handle = "open"
  /\ CanMint
  /\ LET key == FetchAddResult(counter) IN
       /\ counter' = FetchAddStored(counter)
       /\ minted' = Append(minted, key)
       /\ store' = TreeInsert(store, key, value)
       /\ last' = Op("insert", key, value, TreeGet(store, key))
  /\ direct' = IF directOnly THEN Append(direct, value) ELSE direct
  /\ UNCHANGED <<handleVars, explicit, directOnly, batchVars, txVars>>

\* KeyGeneratingTree::insert while the store fails the write: a failed write
\* leaves the partition as it was.
InsertFails(value) ==
  /\ handle = "open"
  /\ CanMint
  /\ \E e \in StoreErrors :
       LET key == FetchAddResult(counter)
           res == ResultMap(Err(e), key)
       IN
         /\ counter' = FetchAddStored(counter)
         /\ minted' = Append(minted, key)
         /\ failed' = failed \cup {[key |-> key, at |-> Len(minted) + 1,
                                    raised |-> Err(e), returned |-> res]}
         /\ last' = Op("insert_err", key, value, res)
  /\ directOnly' = FALSE
  /\ direct' = <<>>
  /\ UNCHANGED <<store, handle, opens, atOpen, seed, oldMinted, shareVars,
                 explicit, batchVars, txVars>>

\* A slip: the explicit-key insert moves the counter past the key it wrote.
InsertWithKeyAdvancing(key, value) ==
  /\ handle = "open"
  /\ explicit < MaxExplicit
  /\ explicit' = explicit + 1
  /\ store' = TreeInsert(store, key, value)
  /\ counter' = WrappingAdd(key, 1)
  /\ last' = Op("insert_with_key", key, value, TreeGet(store, key))
  /\ directOnly' = FALSE
  /\ direct' = <<>>
  /\ UNCHANGED <<minted, handleVars, batchVars, txVars>>

\* KeyGeneratingTree::insert_with_key
InsertWithKey(key, value) ==
  /\ handle = "open"
  /\ explicit < MaxExplicit
  /\ explicit' = explicit + 1
  /\ store' = TreeInsert(store, key, value)
  /\ last' = Op("insert_with_key", key, value, TreeGet(store, key))
  /\ directOnly' = FALSE
  /\ direct' = <<>>
  /\ UNCHANGED <<genVars, handleVars, batchVars, txVars>>

\* KeyGeneratingTree::next_key
NextKey ==
  /\ handle = "open"
  /\ CanMint
  /\ LET key == FetchAddResult(counter) IN
       /\ counter' = FetchAddStored(counter)
       /\ minted' = Append(minted, key)
       /\ last' = Op("next_key", key, None, None)
  /\ directOnly' = FALSE
  /\ direct' = <<>>
  /\ UNCHANGED <<store, handleVars, explicit, batchVars, txVars>>

\* A slip: the value is constructed for one key and written at the next one
\* (insert_fn ending in self.insert(&value), which mints again).
InsertFnMintingTwice(f) ==
  /\ handle = "open"
  /\ CanMint
  /\ LET shown == FetchAddResult(counter)
         value == Construct(f, shown)
         key == FetchAddResult(FetchAddStored(counter))
     IN
       /\ counter' = FetchAddStored(FetchAddStored(counter))
       /\ minted' = Append(minted, key)
       /\ store' = TreeInsert(store, key, value)
       /\ last' = Op("insert_fn", key, value, TreeGet(store, key))
  /\ directOnly' = FALSE
  /\ direct' = <<>>
  /\ UNCHANGED <<handleVars, explicit, batchVars, txVars>>

\* KeyGeneratingTree::insert_fn
InsertFn(f) ==
  /\ handle = "open"
  /\ CanMint
  /\ LET key == FetchAddResult(counter)
         value == Construct(f, key)
     IN
       /\ counter' = FetchAddStored(counter)
       /\ minted' = Append(minted, key)
       /\ store' = TreeInsert(store, key, value)
       /\ last' = Op("insert_fn", key, value, TreeGet(store, key))
  /\ directOnly' = FALSE
  /\ direct' = <<>>
  /\ UNCHANGED <<handleVars, explicit, batchVars, txVars>>

\* KeyGeneratingTree::insert_fn while the store fails the write.
InsertFnFails(f) ==
  /\ handle = "open"
  /\ CanMint
  /\ \E e \in StoreErrors :
       LET key == FetchAddResult(counter)
           value == Construct(f, key)
           res == ResultMap(Err(e), key)
       IN
         /\ counter' = FetchAddStored(counter)
         /\ minted' = Append(minted, key)
         /\ failed' = failed \cup {[key |-> key, at |-> Len(minted) + 1,
                                    raised |-> Err(e), returned |-> res]}
         /\ last' = Op("insert_fn_err", key, value, res)
  /\ directOnly' = FALSE
  /\ direct' = <<>>
  /\ UNCHANGED <<store, handle, opens, atOpen, seed, oldMinted, shareVars,
                 explicit, batchVars, txVars>>

\* Tree::remove, reached through Deref
Remove(key) ==
  /\ handle = "open"
  /\ explicit < MaxExplicit
  /\ explicit' = explicit + 1
  /\ store' = TreeRemove(store, key)
  /\ last' = Op("remove", key, None, TreeGet(store, key))
  /\ directOnly' = FALSE
  /\ direct' = <<>>
  /\ UNCHANGED <<genVars, handleVars, batchVars, txVars>>

\* Tree::get, reached through Deref
Get(key) ==
  /\ handle = "open"
  /\ last' = Op("get", key, None, TreeGet(store, key))
  /\ directOnly' = FALSE
  /\ direct' = <<>>
  /\ UNCHANGED <<store, genVars, handleVars, explicit, batchVars, txVars>>

(* --------------------------- further handles --------------------------- *)

\* The handles: 0 is the first one.
Handles == 0..Len(arcs)

\* The cell the Arc of a handle's Counter points to.
ArcOf(h) == IF h = 0 THEN 0 ELSE arcs[h].arc

\* The value of a cell.
Cell(a) == IF a = 0 THEN counter ELSE atomics[a]

\* A slip: the clone gets a counter of its own, holding the value the
\* original's counter had (AtomicU64 for Arc<AtomicU64>).
CloneSnapshot(h) ==
  /\ handle = "open"
  /\ Len(arcs) < MaxFurther
  /\ atomics' = Append(atomics, Cell(ArcOf(h)))
  /\ arcs' = Append(arcs, [how |-> "clone", from |-> h, arc |-> Len(atomics) + 1,
                           seed |-> Cell(ArcOf(h))])
  /\ last' = Op("clone", h, None, None)
  /\ directOnly' = FALSE
  /\ direct' = <<>>
  /\ UNCHANGED <<store, genVars, handle, opens, atOpen, seed, oldMinted, failed,
                 mintedVia, explicit, batchVars, txVars>>

\* KeyGeneratingTree::clone (derived): the generator and the store handle are
\* cloned, and the clone of a Counter is the clone of its Arc.
Clone(h) ==
  /\ handle = "open"
  /\ Len(arcs) < MaxFurther
  /\ arcs' = Append(arcs, [how |-> "clone", from |-> h, arc |-> ArcOf(h),
                           seed |-> Cell(ArcOf(h))])
  /\ last' = Op("clone", h, None, None)
  /\ directOnly' = FALSE
  /\ direct' = <<>>
  /\ UNCHANGED <<store, genVars, handle, opens, atOpen, seed, oldMinted, failed,
                 atomics, mintedVia, explicit, batchVars, txVars>>

\* A slip: a further open of the partition hands out the generator of the
\* handle that is already open.
OpenAgainSharing ==
  /\ handle = "open"
  /\ Len(arcs) < MaxFurther
  /\ arcs' = Append(arcs, [how |-> "open", from |-> 0, arc |-> 0, seed |-> counter])
  /\ last' = Op("open_again", counter, None, None)
  /\ directOnly' = FALSE
  /\ direct' = <<>>
  /\ UNCHANGED <<store, genVars, handle, opens, atOpen, seed, oldMinted, failed,
                 atomics, mintedVia, explicit, batchVars, txVars>>

\* KeyGeneratingTree::open, called again over the partition while the first
\* handle is alive: KG::initialize makes a new Counter.
OpenAgain ==
  /\ handle = "open"
  /\ Len(arcs) < MaxFurther
  /\ \E c \in CounterInitialize(store) :
       /\ handle' = IF c = Panic THEN "panicked" ELSE "open"
       /\ atomics' = IF c = Panic THEN atomics ELSE Append(atomics, c)
       /\ arcs' = IF c = Panic THEN arcs
                  ELSE Append(arcs, [how |-> "open", from |-> 0,
                                     arc |-> Len(atomics) + 1, seed |-> c])
       /\ last' = Op("open_again", IF c = Panic THEN 0 ELSE c, None, None)
  /\ directOnly' = FALSE
  /\ direct' = <<>>
  /\ UNCHANGED <<store, genVars, opens, atOpen, seed, oldMinted, failed,
                 mintedVia, explicit, batchVars, txVars>>

\* KeyGeneratingTree::insert through a further handle.
InsertVia(h, value) ==
  /\ handle = "open"
  /\ h \in 1..Len(arcs)
  /\ CanMint
  /\ LET a == ArcOf(h)
         key == FetchAddResult(Cell(a))
     IN
       /\ counter' = IF a = 0 THEN FetchAddStored(counter) ELSE counter
       /\ atomics' = IF a = 0 THEN atomics
                     ELSE [atomics EXCEPT ![a] = FetchAddStored(atomics[a])]
       /\ mintedVia' = Append(mintedVia, <<h, key>>)
       /\ store' = TreeInsert(store, key, value)
       /\ last' = Op("insert_via", key, value, TreeGet(store, key))
  /\ directOnly' = FALSE
  /\ direct' = <<>>
  /\ UNCHANGED <<minted, handle, opens, atOpen, seed, oldMinted, failed, arcs,
                 explicit, batchVars, txVars>>

(* ------------------------ KeyGeneratingBatch --------------------------- *)

\* KeyGeneratingTree::new_batch
NewBatch ==
  /\ handle = "open"
  /\ ~building
  /\ building' = TRUE
  /\ batch' = <<>>
  /\ last' = Op("new_batch", 0, None, None)
  /\ directOnly' = FALSE
  /\ direct' = <<>>
  /\ UNCHANGED <<store, genVars, handleVars, explicit, txVars>>

\* A slip: the batch reads the counter without advancing it.
BatchInsertNotAdvancing(value) ==
  /\ handle = "open"
  /\ building
  /\ CanMint
  /\ LET key == FetchAddResult(counter) IN
       /\ counter' = counter
       /\ minted' = Append(minted, key)
       /\ batch' = Append(batch, <<"ins", key, value>>)
       /\ last' = Op("batch_insert", key, value, None)
  /\ directOnly' = FALSE
  /\ direct' = <<>>
  /\ UNCHANGED <<store, handleVars, explicit, building, txVars>>

\* A slip: the batch insert writes its entry to the partition at once.
BatchInsertWritingThrough(value) ==
  /\ handle = "open"
  /\ building
  /\ CanMint
  /\ LET key == FetchAddResult(counter) IN
       /\ counter' = FetchAddStored(counter)
       /\ minted' = Append(minted, key)
       /\ batch' = Append(batch, <<"ins", key, value>>)
       /\ store' = TreeInsert(store, key, value)
       /\ last' = Op("batch_insert", key, value, None)
  /\ directOnly' = FALSE
  /\ direct' = <<>>
  /\ UNCHANGED <<handleVars, explicit, building, txVars>>

\* KeyGeneratingBatch::insert
BatchInsert(value) ==
  /\ handle = "open"
  /\ building
  /\ CanMint
  /\ LET key == FetchAddResult(counter) IN
       /\ counter' = FetchAddStored(counter)
       /\ minted' = Append(minted, key)
       /\ batch' = Append(batch, <<"ins", key, value>>)
       /\ last' = Op("batch_insert", key, value, None)
  /\ directOnly' = FALSE
  /\ direct' = <<>>
  /\ UNCHANGED <<store, handleVars, explicit, building, txVars>>

\* KeyGeneratingBatch::remove
BatchRemove(key) ==
  /\ handle = "open"
  /\ building
  /\ explicit < MaxExplicit
  /\ explicit' = explicit + 1
  /\ batch' = Append(batch, <<"del", key, None>>)
  /\ last' = Op("batch_remove", key, None, None)
  /\ directOnly' = FALSE
  /\ direct' = <<>>
  /\ UNCHANGED <<store, genVars, handleVars, building, txVars>>

\* KeyGeneratingTree::apply_batch: consumes the batch (what it held stays on
\* record until the next batch is made).
ApplyBatch ==
  /\ handle = "open"
  /\ building
  /\ store' = ApplyOps(store, batch)
  /\ building' = FALSE
  /\ batch' = batch
  /\ last' = Op("apply_batch", Len(batch), None, None)
  /\ directOnly' = FALSE
  /\ direct' = <<>>
  /\ UNCHANGED <<genVars, handleVars, explicit, txVars>>

\* The batch goes out of scope without having been applied.
DiscardBatch ==
  /\ handle = "open"
  /\ building
  /\ building' = FALSE
  /\ batch' = <<>>
  /\ last' = Op("discard_batch", 0, None, None)
  /\ directOnly' = FALSE
  /\ direct' = <<>>
  /\ UNCHANGED <<store, genVars, handleVars, explicit, txVars>>

(* ------------------ KeyGeneratingTransactionalTree --------------------- *)

\* KeyGeneratingTree::transaction: the closure is invoked for the first time.
TxBegin ==
  /\ handle = "open"
  /\ txState = "idle"
  /\ txState' = "running"
  /\ txWrites' = NoWrites
  /\ txKeys' = <<>>
  /\ txFailed' = {}
  /\ txAttempts' = 1
  /\ txStart' = <<counter, Len(oldMinted) + Len(minted)>>
  /\ txCounts' = <<>>
  /\ txReplays' = {}
  /\ last' = Op("tx_begin", 0, None, None)
  /\ directOnly' = FALSE
  /\ direct' = <<>>
  /\ UNCHANGED <<store, genVars, handleVars, explicit, batchVars>>

\* A slip: the transactional insert reads the counter without advancing it
\* (load for fetch_add).
TxInsertPeeking(value) ==
  /\ handle = "open"
  /\ txState = "running"
  /\ CanMint
  /\ LET key == FetchAddResult(counter) IN
       /\ counter' = counter
       /\ minted' = Append(minted, key)
       /\ txWrites' = StageOp(txWrites, <<"ins", key, value>>)
       /\ txKeys' = Append(txKeys, key)
       /\ last' = Op("tx_insert", key, value, None)
  /\ directOnly' = FALSE
  /\ direct' = <<>>
  /\ UNCHANGED <<store, handleVars, explicit, batchVars, txState, txFailed, txAttempts, txGhost>>

\* KeyGeneratingTransactionalTree::insert
TxInsert(value) ==
  /\ handle = "open"
  /\ txState = "running"
  /\ CanMint
  /\ LET key == FetchAddResult(counter) IN
       /\ counter' = FetchAddStored(counter)
       /\ minted' = Append(minted, key)
       /\ txWrites' = StageOp(txWrites, <<"ins", key, value>>)
       /\ txKeys' = Append(txKeys, key)
       /\ last' = Op("tx_insert", key, value, None)
  /\ directOnly' = FALSE
  /\ direct' = <<>>
  /\ UNCHANGED <<store, handleVars, explicit, batchVars, txState, txFailed, txAttempts, txGhost>>

RECURSIVE Reminted(_, _)
\* The queued operations with the inserts given new keys, from c on.
Reminted(ops, c) ==
  IF ops = <<>> THEN <<>>
  ELSE IF Head(ops)[1] = "ins"
    THEN <<(<<"ins", c, Head(ops)[3]>>)>> \o Reminted(Tail(ops), WrappingAdd(c, 1))
    ELSE <<Head(ops)>> \o Reminted(Tail(ops), c)

\* A slip: the keys of a batch's inserts are minted when the batch is replayed
\* (the batch queues values, and the replay calls next_key for each).
TxApplyBatchReminting ==
  /\ handle = "open"
  /\ txState = "running"
  /\ building
  /\ LET ops == Reminted(batch, counter)
         new == SelectSeq(ops, LAMBDA op : op[1] = "ins")
     IN
       /\ counter' = WrappingAdd(counter, Len(new))
       /\ minted' = minted \o [i \in 1..Len(new) |-> new[i][2]]
       /\ txWrites' = StageOps(txWrites, ops)
       /\ txReplays' = txReplays \cup {<<txAttempts, batch, StagedKeys(StageOps(NoWrites, ops))>>}
  /\ last' = Op("tx_apply_batch", 0, None, None)
  /\ directOnly' = FALSE
  /\ direct' = <<>>
  /\ UNCHANGED <<store, handleVars, explicit, batchVars,
                 txState, txKeys, txFailed, txAttempts, txStart, txCounts>>

\* KeyGeneratingTransactionalTree::apply_batch: the batch is borrowed, not consumed.
TxApplyBatch ==
  /\ handle = "open"
  /\ txState = "running"
  /\ building
  /\ txWrites' = StageOps(txWrites, batch)
  /\ txReplays' = txReplays \cup {<<txAttempts, batch, StagedKeys(StageOps(NoWrites, batch))>>}
  /\ last' = Op("tx_apply_batch", 0, None, None)
  /\ directOnly' = FALSE
  /\ direct' = <<>>
  /\ UNCHANGED <<store, genVars, handleVars, explicit, batchVars,
                 txState, txKeys, txFailed, txAttempts, txStart, txCounts>>

\* The attempt ends in a conflict: what it staged is dropped and the closure
\* is invoked again.
TxConflict ==
  /\ handle = "open"
  /\ txState = "running"
  /\ txAttempts < MaxAttempts
  /\ txAttempts' = txAttempts + 1
  /\ txFailed' = txFailed \cup {txKeys[i] : i \in 1..Len(txKeys)}
  /\ txCounts' = Append(txCounts, Len(txKeys))
  /\ txWrites' = NoWrites
  /\ txKeys' = <<>>
  /\ last' = Op("tx_conflict", 0, None, None)
  /\ directOnly' = FALSE
  /\ direct' = <<>>
  /\ UNCHANGED <<store, genVars, handleVars, explicit, batchVars, txState, txStart, txReplays>>

\* The closure returns Ok and the attempt commits: what it staged becomes
\* visible as one commit.
TxCommit ==
  /\ handle = "open"
  /\ txState = "running"
  /\ store' = Commit(store, txWrites)
  /\ txState' = "idle"
  /\ txWrites' = NoWrites
  /\ last' = Op("tx_commit", 0, None, None)
  /\ directOnly' = FALSE
  /\ direct' = <<>>
  /\ UNCHANGED <<genVars, handleVars, explicit, batchVars, txKeys, txFailed, txAttempts, txGhost>>

\* The closure aborts: nothing it staged becomes visible.
TxAbort ==
  /\ handle = "open"
  /\ txState = "running"
  /\ txState' = "idle"
  /\ txWrites' = NoWrites
  /\ last' = Op("tx_abort", 0, None, None)
  /\ directOnly' = FALSE
  /\ direct' = <<>>
  /\ UNCHANGED <<store, genVars, handleVars, explicit, batchVars, txKeys, txFailed, txAttempts, txGhost>>

Next ==
  \/ Open
  \/ OpenScanFails
  \/ Drop
  \/ \E v \in PlainValues : Insert(v)
  \/ \E v \in PlainValues : InsertFails(v)
  \/ \E f \in Constructors : InsertFnFails(f)
  \/ \E k \in Keys, v \in ExplicitValues : InsertWithKey(k, v)
  \/ NextKey
  \/ \E f \in Constructors : InsertFn(f)
  \/ \E k \in KnownKeys : Remove(k)
  \/ \E k \in KnownKeys : Get(k)
  \/ NewBatch
  \/ \E v \in PlainValues : BatchInsert(v)
  \/ \E k \in KnownKeys : BatchRemove(k)
  \/ ApplyBatch
  \/ DiscardBatch
  \/ TxBegin
  \/ \E v \in PlainValues : TxInsert(v)
  \/ TxApplyBatch
  \/ TxConflict
  \/ TxCommit
  \/ TxAbort
  \/ \E h \in Handles : Clone(h)
  \/ OpenAgain
  \/ \E h \in Handles, v \in PlainValues : InsertVia(h, v)

\* Callers use the handle's own operations, across restarts.
NextHandle ==
  \/ Open
  \/ Drop
  \/ \E v \in PlainValues : Insert(v)
  \/ \E k \in Keys, v \in ExplicitValues : InsertWithKey(k, v)
  \/ NextKey
  \/ \E f \in Constructors : InsertFn(f)
  \/ \E k \in KnownKeys : Remove(k)

\* Callers build, apply and discard batches beside writes through the handle.
NextBatch ==
  \/ Open
  \/ \E v \in PlainValues : Insert(v)
  \/ \E k \in Keys, v \in ExplicitValues : InsertWithKey(k, v)
  \/ NewBatch
  \/ \E v \in PlainValues : BatchInsert(v)
  \/ \E k \in KnownKeys : BatchRemove(k)
  \/ ApplyBatch
  \/ DiscardBatch

\* Callers run transactions beside every other way of minting a key.
NextTx ==
  \/ Open
  \/ \E v \in PlainValues : Insert(v)
  \/ NextKey
  \/ \E f \in Constructors : InsertFn(f)
  \/ NewBatch
  \/ \E v \in PlainValues : BatchInsert(v)
  \/ TxBegin
  \/ \E v \in PlainValues : TxInsert(v)
  \/ TxApplyBatch
  \/ TxConflict
  \/ TxCommit
  \/ TxAbort

\* The store fails some scans and some writes of callers that open the
\* partition and use the generated inserts.
NextFaults ==
  \/ Open
  \/ OpenScanFails
  \/ \E v \in OneValue : Insert(v)
  \/ \E v \in OneValue : InsertFails(v)
  \/ NextKey
  \/ \E f \in Constructors : InsertFn(f)
  \/ \E f \in Constructors : InsertFnFails(f)

\* One caller uses every operation of the handle, of its batch and of its
\* transaction context, one after the other: the closure of a transaction runs
\* to its commit before the caller goes on.
NextFrame ==
  \/ Open
  \/ txState = "idle" /\ \E v \in OneValue : Insert(v)
  \/ txState = "idle" /\ \E k \in {counter, MaxKey}, v \in ExplicitValues : InsertWithKey(k, v)
  \/ txState = "idle" /\ NextKey
  \/ txState = "idle" /\ InsertFn("const")
  \/ txState = "idle" /\ Get(0)
  \/ txState = "idle" /\ NewBatch
  \/ txState = "idle" /\ \E v \in OneValue : BatchInsert(v)
  \/ txState = "idle" /\ BatchRemove(0)
  \/ txState = "idle" /\ ApplyBatch
  \/ TxBegin
  \/ \E v \in OneValue : TxInsert(v)
  \/ TxApplyBatch
  \/ TxCommit

\* Callers run transactions beside direct inserts, across restarts.
NextTxRestart ==
  \/ Open
  \/ Drop
  \/ \E v \in OneValue : Insert(v)
  \/ TxBegin
  \/ \E v \in OneValue : TxInsert(v)
  \/ TxConflict
  \/ TxCommit
  \/ TxAbort

\* Callers mint through the first handle, its batch and its transaction
\* context, and through clones and handles of further open calls.
NextShared ==
  \/ Open
  \/ \E v \in OneValue : Insert(v)
  \/ NewBatch
  \/ \E v \in OneValue : BatchInsert(v)
  \/ TxBegin
  \/ \E v \in OneValue : TxInsert(v)
  \/ \E h \in Handles : Clone(h)
  \/ OpenAgain
  \/ \E h \in Handles, v \in OneValue : InsertVia(h, v)

\* Callers build a batch and replay it inside transactions whose closure
\* also inserts.
NextReplay ==
  \/ Open
  \/ NewBatch
  \/ \E v \in OneValue : BatchInsert(v)
  \/ TxBegin
  \/ \E v \in OneValue : TxInsert(v)
  \/ TxApplyBatch
  \/ TxConflict
  \/ TxCommit
  \/ TxAbort

Spec == Init /\ [][Next]_vars

SpecReplay == Init /\ [][NextReplay]_vars

SpecShared == Init /\ [][NextShared]_vars

SpecTxRestart == Init /\ [][NextTxRestart]_vars

SpecFrame == Init /\ [][NextFrame]_vars

SpecFaults == Init /\ [][NextFaults]_vars

SpecHandle == Init /\ [][NextHandle]_vars

SpecBatch == Init /\ [][NextBatch]_vars

SpecTx == Init /\ [][NextTx]_vars

(* ------------------------------ claims --------------------------------- *)

\* The greatest key of the partition at open time (only asked when there is one).
GreatestAtOpen == Max(KeysOf(atOpen))

\* C1: with no explicit-key inserts, the keys minted through one handle, under
\* any interleaving of insert, insert_fn, next_key, batch insert and
\* transactional insert, are pairwise distinct and none of them was in the
\* partition when the handle was opened.
C1_MintedKeysNeverCollide ==
  explicit = 0 =>
    /\ \A i, j \in 1..Len(minted) : i # j => minted[i] # minted[j]
    /\ \A i \in 1..Len(minted) : TreeGet(atOpen, minted[i]) = None

\* C2: on a handle freshly opened over an empty partition, N successive direct
\* inserts return the keys 0, 1, ..., N-1 in call order, and afterwards get(i)
\* returns the value passed to the i-th insert.
C2_FreshInsertsCountFromZero ==
  (handle = "open" /\ directOnly /\ KeysOf(atOpen) = {}) =>
    /\ Len(minted) = Len(direct)
    /\ \A i \in 1..Len(direct) :
         /\ minted[i] = i - 1
         /\ TreeGet(store, i - 1) = direct[i]

\* C2 witness: three direct inserts on a fresh handle over an empty partition,
\* not all of the same value.
C2_Witness ==
  /\ handle = "open" /\ directOnly /\ KeysOf(atOpen) = {}
  /\ Len(direct) = 3
  /\ direct[1] # direct[2]
  /\ last.op = "insert" /\ last.key = 2

\* C3: opening a handle over a partition whose greatest key is m seeds the
\* counter to m+1, so that the first key minted after the open is m+1 and never
\* a value <= m; over an empty partition the counter is seeded to 0.
C3_OpenSeedsPastGreatestKey ==
  /\ last.op = "open" =>
       /\ handle = "open"
       /\ counter = IF KeysOf(atOpen) = {} THEN 0 ELSE GreatestAtOpen + 1
  /\ (handle = "open" /\ Len(minted) >= 1 /\ KeysOf(atOpen) # {}) =>
       /\ minted[1] = GreatestAtOpen + 1
       /\ minted[1] > GreatestAtOpen

\* C4: the n calls of next_key made so far on one generator, whose counter was
\* s when they began, returned n different values, and the values returned are
\* exactly s, s+1, ..., s+n-1.
C4_ConcurrentMintsAreContiguous ==
  handle = "open" =>
    /\ Cardinality(MintedKeys) = Len(minted)
    /\ MintedKeys = seed..(seed + Len(minted) - 1)

IsInsert(op) == op[1] = "ins"

\* C5: applying a batch built from M inserts leaves M distinct keys in the
\* partition, each mapped to the value given to its batch insert; building a
\* batch, and discarding it unapplied, add nothing to the partition.
C5_AppliedBatchHoldsItsInserts ==
  [][/\ (last'.op = "apply_batch" /\ \A i \in 1..Len(batch) : IsInsert(batch[i])) =>
          /\ Cardinality({batch[i][2] : i \in 1..Len(batch)}) = Len(batch)
          /\ \A i \in 1..Len(batch) : TreeGet(store', batch[i][2]) = batch[i][3]
     /\ last'.op \in {"new_batch", "batch_insert", "discard_batch"} => store' = store
    ]_vars

\* C5 witness: a batch of two inserts with different values has just been
\* applied, and both are in the partition under the keys minted for them.
C5_Witness ==
  /\ last.op = "apply_batch"
  /\ Len(batch) = 2
  /\ IsInsert(batch[1]) /\ IsInsert(batch[2])
  /\ batch[1][2] # batch[2][2]
  /\ batch[1][3] # batch[2][3]
  /\ TreeGet(atOpen, batch[1][2]) = None /\ TreeGet(atOpen, batch[2][2]) = None
  /\ TreeGet(store, batch[1][2]) = batch[1][3]
  /\ TreeGet(store, batch[2][2]) = batch[2][3]

\* C6: a key minted by the re-invoked closure of a transaction is strictly
\* greater than every key minted by the attempts that ended in a conflict.
C6_RetryMintsGreaterKeys ==
  \A i \in 1..Len(txKeys) : \A f \in txFailed : txKeys[i] > f

\* C7: no key minted by a handle equals a key minted by an earlier handle over
\* the same partition.
C7_NoCollisionAcrossRestart ==
  MintedKeys \cap OldMintedKeys = {}

\* C8: every value returned by next_key is strictly greater than every value
\* returned before by that instance and than the greatest key in the store at
\* initialization, whatever the store held, the greatest representable key
\* included.
C8_MintedKeysStrictlyIncrease ==
  handle = "open" =>
    /\ \A i, j \in 1..Len(minted) : i < j => minted[i] < minted[j]
    /\ KeysOf(atOpen) # {} => \A i \in 1..Len(minted) : minted[i] > GreatestAtOpen

\* C9: insert_fn mints exactly one key; the constructor, the store write and
\* the caller all get that key: the partition holds at the returned key the
\* value constructed, and a value that embeds the key it was constructed for
\* embeds the returned key.
C9_InsertFnUsesOneKey ==
  [][last'.op = "insert_fn" =>
       /\ Len(minted') = Len(minted) + 1
       /\ counter' = WrappingAdd(counter, 1)
       /\ minted'[Len(minted')] = last'.key
       /\ TreeGet(store', last'.key) = last'.val
       /\ last'.val[1] = "emb" => last'.val = Embed(last'.key)
    ]_vars

\* C9 witness: insert_fn with the embedding constructor has just returned, on
\* a handle that had minted before.
C9_Witness ==
  /\ last.op = "insert_fn"
  /\ last.key > 0
  /\ Len(minted) >= 2
  /\ TreeGet(store, last.key) = Embed(last.key)

\* C10 as stated: after insert_with_key(k, v), the next_key that follows
\* immediately does not return k, unless k was below the counter at the time
\* of the explicit insert.
C10_ReuseOnlyBelowCounter ==
  [][(last.op = "insert_with_key" /\ last'.op = "next_key") =>
       (last'.key = last.key => last.key < counter)
    ]_vars

\* C10 amended: insert_with_key leaves the counter alone, and the next_key that
\* follows it immediately returns k exactly when k equals the counter at the
\* time of the explicit insert (never when k is below or above it).
C10_ReuseExactlyAtCounter ==
  [][/\ last'.op = "insert_with_key" => counter' = counter
     /\ (last.op = "insert_with_key" /\ last'.op = "next_key") =>
          (last'.key = last.key <=> last.key = counter)
    ]_vars

\* C10 witness: the handle's first two operations were an explicit insert at
\* the counter's value and a next_key, which returned the key just written.
C10_Witness ==
  /\ opens = 1 /\ explicit = 1 /\ minted = <<last.key>>
  /\ last.op = "next_key"
  /\ last.key = seed
  /\ TreeGet(atOpen, last.key) = None
  /\ TreeGet(store, last.key) # None

\* Every mint made after a failed write returned a key greater than the key of
\* that write.
LaterKeysExceedFailed ==
  \A f \in failed : \A j \in (f.at + 1)..Len(minted) : minted[j] > f.key

\* C11: when the store fails the write of insert or insert_fn, the caller gets
\* the store's error as the store raised it, the partition is unchanged, and
\* the key minted for the failed write is not given back: every later mint on
\* that handle returns a key strictly greater than the failed write's key.
C11_FailedWriteKeepsItsKey ==
  [][/\ last'.op \in {"insert_err", "insert_fn_err"} =>
          /\ store' = store
          /\ \E f \in failed' \ failed :
               /\ f.key = last'.key
               /\ f.returned = f.raised
               /\ last'.old = f.raised
          /\ counter' = WrappingAdd(counter, 1)
     /\ LaterKeysExceedFailed'
    ]_vars

\* C12: when the scan for the greatest key fails during open, the open ends in
\* a panic: no handle comes out of it, nothing can be done afterwards, and no
\* handle is ever open whose counter was seeded after a failed scan.
C12_ScanFailureIsFatal ==
  [][/\ (last'.op = "open" /\ last'.old # None) =>
          /\ handle' = "panicked"
          /\ minted' = <<>>
     /\ (last'.op = "open" /\ handle' = "open") => last'.old = None
     /\ handle # "panicked"
    ]_vars

\* C12 witness: the scan failed while a handle was being opened over a
\* partition that holds keys (a counter seeded to 0 would mint them again), and
\* the open panicked.
C12_Witness ==
  /\ last.op = "open"
  /\ last.old = Err("io")
  /\ handle = "panicked"
  /\ KeysOf(store) # {}
  /\ TreeGet(store, 0) # None

\* The operations that mint a key.
MintingOps == {"insert", "insert_fn", "next_key", "batch_insert", "tx_insert"}

\* C13: the counter changes only through next_key: insert_with_key, batch
\* remove, apply_batch on the handle and inside a transaction, new_batch and
\* reads leave it unchanged, and insert, insert_fn, next_key, batch insert and
\* transactional insert each advance it by exactly one (one key) per call.
C13_CounterMovesOnlyByMinting ==
  [][/\ last'.op \in {"insert_with_key", "batch_remove", "apply_batch",
                      "tx_apply_batch", "new_batch", "get"} =>
          /\ counter' = counter
          /\ minted' = minted
     /\ last'.op \in MintingOps =>
          /\ counter' = WrappingAdd(counter, 1)
          /\ minted' = Append(minted, counter)
          /\ last'.key = counter
     /\ (handle = "open" /\ counter' # counter) => last'.op \in MintingOps
    ]_vars

\* C13 witness: after an explicit-key insert at a key ahead of the counter, a
\* batch insert and a transactional insert, the counter stands two past its
\* seed.
C13_Witness ==
  /\ handle = "open"
  /\ explicit = 1
  /\ last.op = "tx_insert"
  /\ building
  /\ Len(batch) = 1
  /\ IsInsert(batch[1])
  /\ minted = <<seed, seed + 1>>
  /\ counter = seed + 2
  /\ \E k \in Keys : k >= counter /\ TreeGet(store, k) # None /\ TreeGet(atOpen, k) = None

\* What a key holds once the queued operations ops have been applied to a
\* partition in which it held before: what the last operation on it left.
AfterOps(ops, k, before) ==
  LET on == {i \in 1..Len(ops) : ops[i][2] = k} IN
    IF on = {} THEN before ELSE ops[Max(on)][3]

\* C14: building a batch never touches the store: batch insert (which advances
\* the counter and appends one pending entry) and batch remove (which appends
\* one pending removal) leave the partition unchanged, and the queued
\* operations show in the partition with the apply_batch step.
C14_BatchTouchesStoreOnlyWhenApplied ==
  [][/\ last'.op \in {"new_batch", "batch_insert", "batch_remove"} => store' = store
     /\ last'.op = "batch_insert" =>
          /\ counter' = WrappingAdd(counter, 1)
          /\ batch' = Append(batch, <<"ins", counter, last'.val>>)
     /\ last'.op = "batch_remove" =>
          /\ counter' = counter
          /\ batch' = Append(batch, <<"del", last'.key, None>>)
     /\ last'.op = "apply_batch" =>
          \A k \in Keys : TreeGet(store', k) = AfterOps(batch, k, TreeGet(store, k))
    ]_vars

\* C14 witness: a batch of one insert and one removal of a key the partition
\* held at open has just been applied: the inserted entry is there and the
\* removed one is gone.
C14_Witness ==
  /\ last.op = "apply_batch"
  /\ ~building
  /\ \E i, j \in 1..Len(batch) :
       /\ IsInsert(batch[i])
       /\ ~IsInsert(batch[j])
       /\ batch[i][2] # batch[j][2]
       /\ TreeGet(atOpen, batch[i][2]) = None
       /\ TreeGet(store, batch[i][2]) = batch[i][3]
       /\ TreeGet(atOpen, batch[j][2]) # None
       /\ TreeGet(store, batch[j][2]) = None

\* The keys minted by the attempts of the last transaction call.
TxCallKeys == txFailed \cup {txKeys[i] : i \in 1..Len(txKeys)}

\* How often a key was handed out since the last transaction call began, by
\* this handle and by the ones opened after it.
TimesMintedSinceTx(k) ==
  LET all == oldMinted \o minted IN
    Cardinality({i \in (txStart[2] + 1)..Len(all) : all[i] = k})

\* C15: the counter advances on every transactional insert whatever becomes of
\* the transaction: once a call has ended (commit or abort) whose closure was
\* invoked a times and made m inserts in each invocation, with no other caller
\* minting meanwhile, the counter has advanced by exactly a*m and a*m keys were
\* consumed; and none of the keys minted by the call is ever handed out again.
C15_EveryAttemptConsumesKeys ==
  /\ \A k \in TxCallKeys : TimesMintedSinceTx(k) = 1
  /\ last.op \in {"tx_commit", "tx_abort"} =>
       LET a == txAttempts
           m == Len(txKeys)
       IN
         ((\A i \in 1..Len(txCounts) : txCounts[i] = m)
            /\ Len(oldMinted) + Len(minted) - txStart[2] = a * m) =>
           /\ counter = WrappingAdd(txStart[1], a * m)
           /\ Cardinality(TxCallKeys) = a * m

\* C16: a collision between an explicit key and a generated one is neither
\* detected nor an error, and the last writer wins: insert_with_key(k, v)
\* writes v at k whatever the counter is and leaves the counter alone, and the
\* generated insert that later mints a key holding a value v succeeds, returns
\* v as the previous value and leaves its own value at the key.
C16_LastWriterWins ==
  [][/\ last'.op = "insert_with_key" =>
          /\ handle' = "open"
          /\ counter' = counter
          /\ TreeGet(store', last'.key) = last'.val
     /\ (last'.op \in {"insert", "insert_fn"} /\ TreeGet(store, last'.key) # None) =>
          /\ handle' = "open"
          /\ last'.old = TreeGet(store, last'.key)
          /\ TreeGet(store', last'.key) = last'.val
    ]_vars

\* C16 witness: over an empty partition, insert_with_key(1, v) was called while
\* the counter was at most 1, and the second generated insert has just minted
\* key 1, returned v and left its own, different value there.
C16_Witness ==
  /\ KeysOf(atOpen) = {}
  /\ opens = 1
  /\ explicit = 1
  /\ minted = <<0, 1>>
  /\ last.op = "insert"
  /\ last.key = 1
  /\ last.old \in ExplicitValues
  /\ last.val # last.old
  /\ TreeGet(store, 1) = last.val

RECURSIVE Root(_)
\* The handle whose open call made the generator a handle mints from, if
\* clones share the generator of their original: the original's, for a clone.
Root(h) ==
  IF h = 0 THEN 0
  ELSE IF arcs[h].how = "open" THEN h
  ELSE Root(arcs[h].from)

\* Every key minted so far, with the handle whose generator it should have come
\* from and its place in the order of minting (the first handle's batches and
\* transaction contexts mint into minted).
Mints ==
  {<<0, i, minted[i]>> : i \in 1..Len(minted)}
    \cup {<<Root(mintedVia[i][1]), Len(minted) + i, mintedVia[i][2]>> : i \in 1..Len(mintedVia)}

\* C17: the generator is never duplicated as a snapshot: a clone of a handle
\* points to the counter of the handle it was cloned from (as batches and
\* transaction contexts do), and under every interleaving the keys minted
\* through a handle, its clones, its batches and its transaction contexts are
\* pairwise distinct.
C17_ClonesShareTheCounter ==
  /\ \A h \in 1..Len(arcs) : arcs[h].how = "clone" => arcs[h].arc = ArcOf(arcs[h].from)
  /\ \A x, y \in Mints : (x # y /\ x[1] = y[1]) => x[3] # y[3]

\* C17 witness: the first handle minted a key for its batch, then its clone
\* minted one, then its transaction context: three different keys in a row.
C17_Witness ==
  /\ Len(arcs) = 1
  /\ arcs[1].how = "clone"
  /\ arcs[1].from = 0
  /\ building /\ Len(batch) = 1 /\ batch[1][2] = seed
  /\ mintedVia = <<(<<1, seed + 1>>)>>
  /\ txState = "running" /\ txKeys = <<seed + 2>>
  /\ minted = <<seed, seed + 2>>
  /\ counter = seed + 3

\* C19: handles of separate open calls hold independent counters: a further
\* open makes a counter of its own, seeded from the greatest key the partition
\* holds at that moment (0 for an empty partition) and from nothing else, and
\* leaves every other counter alone; minting through the first handle leaves
\* the counters of the others unchanged, and minting through a separately
\* opened handle advances its own counter only.
C19_SeparateOpensAreIndependent ==
  [][/\ (last'.op = "open_again" /\ handle' = "open") =>
          LET h == Len(arcs') IN
            /\ Len(arcs') = Len(arcs) + 1
            /\ \A g \in Handles : ArcOf(g) # arcs'[h].arc
            /\ arcs'[h].seed = IF KeysOf(store) = {} THEN 0
                                ELSE WrappingAdd(Max(KeysOf(store)), 1)
            /\ atomics'[arcs'[h].arc] = arcs'[h].seed
            /\ counter' = counter
            /\ \A a \in 1..Len(atomics) : atomics'[a] = atomics[a]
     /\ last'.op \in MintingOps => atomics' = atomics
     /\ last'.op = "insert_via" =>
          LET h == mintedVia'[Len(mintedVia')][1] IN
            arcs[h].how = "open" =>
              /\ counter' = counter
              /\ atomics'[arcs[h].arc] = WrappingAdd(atomics[arcs[h].arc], 1)
              /\ \A a \in 1..Len(atomics) : a # arcs[h].arc => atomics'[a] = atomics[a]
    ]_vars

\* C19 witness: over an empty partition the first handle wrote key 0 and minted
\* key 1 for a batch not yet applied; the handle opened then was seeded to 1
\* (past the key written, not past the key minted) and has minted key 1
\* itself, while the first handle's counter still stands at 2.
C19_Witness ==
  /\ KeysOf(atOpen) = {}
  /\ minted = <<0, 1>>
  /\ building /\ Len(batch) = 1 /\ batch[1][2] = 1
  /\ Len(arcs) = 1
  /\ arcs[1].how = "open"
  /\ arcs[1].seed = 1
  /\ mintedVia = <<(<<1, 1>>)>>
  /\ last.op = "insert_via"
  /\ counter = 2
  /\ atomics = <<2>>

\* The keys queued in a batch.
QueuedKeys(ops) == {ops[i][2] : i \in 1..Len(ops)}

\* C18: the keys of a batch are fixed when it is built: a replay through
\* apply_batch inside a transaction writes exactly the keys queued in the
\* batch (the same batch replayed by a re-invoked closure writes the identical
\* keys on every attempt), consumes no key and leaves the batch and the
\* partition as they are; what it wrote shows in the partition with the commit
\* of the attempt, and never when the attempt ends in a conflict or an abort.
C18_ReplayKeepsBatchKeys ==
  [][/\ last'.op = "tx_apply_batch" =>
          /\ counter' = counter
          /\ minted' = minted
          /\ batch' = batch
          /\ store' = store
          /\ QueuedKeys(batch) \subseteq StagedKeys(txWrites')
          /\ \A k \in Keys : txWrites'[k] = AfterOps(batch, k, txWrites[k])
     /\ \A r \in txReplays' : r[3] = QueuedKeys(r[2])
     /\ \A r1, r2 \in txReplays' : r1[2] = r2[2] => r1[3] = r2[3]
     /\ last'.op \in {"tx_conflict", "tx_abort"} => store' = store
     /\ last'.op = "tx_commit" =>
          \A k \in Keys :
            TreeGet(store', k) = IF k \in StagedKeys(txWrites) THEN txWrites[k] ELSE TreeGet(store, k)
    ]_vars

\* C18 witness: a batch of one insert was built first and nothing else minted;
\* both invocations of the closure replayed it, and the second committed: the
\* partition holds the batch's entry at the key minted at build time, and no
\* further key was consumed.
C18_Witness ==
  /\ last.op = "tx_commit"
  /\ txAttempts = 2
  /\ building
  /\ Len(batch) = 1
  /\ IsInsert(batch[1])
  /\ minted = <<batch[1][2]>>
  /\ counter = WrappingAdd(batch[1][2], 1)
  /\ txReplays = {<<1, batch, {batch[1][2]}>>, <<2, batch, {batch[1][2]}>>}
  /\ TreeGet(atOpen, batch[1][2]) = None
  /\ TreeGet(store, batch[1][2]) = batch[1][3]

====
